---- MODULE Spec2Model ----
(***************************************************************************)
(* Translate-Automation: scripts/merge.ts and scripts/translate.ts.        *)
(*                                                                         *)
(* Text (the i18n.ts artifact, keys, values) is a sequence of one-character*)
(* strings, so that the regular expressions and the brace scan of          *)
(* translate.ts are computed character by character.  A dictionary         *)
(* (Record<string,string>) is a sequence of <<key, value>> pairs in the    *)
(* iteration order of the JavaScript object.                               *)
(***************************************************************************)
EXTENDS Integers, Sequences, FiniteSets, TLC

(***************************************************************************)
(* Characters and text                                                     *)
(***************************************************************************)

\* JavaScript \s, restricted to the white space the model's texts contain
IsSpace(c) == c \in {" ", "\n", "\t"}

Min(S) == CHOOSE x \in S : \A y \in S : x <= y

\* text[a..b], empty when b < a
Slice(t, a, b) == IF b < a THEN << >> ELSE SubSeq(t, a, b)

\* the literal w occurs in t at position i
LitAt(t, i, w) ==
    /\ i >= 1
    /\ i + Len(w) - 1 <= Len(t)
    /\ \A n \in 1..Len(w) : t[i + n - 1] = w[n]

\* greedy \s* from position i: the first position >= i that holds no space
RECURSIVE SkipSpace(_, _)
SkipSpace(t, i) ==
    IF i <= Len(t) /\ IsSpace(t[i]) THEN SkipSpace(t, i + 1) ELSE i

\* String.prototype.trim
RECURSIVE TrimLeft(_)
TrimLeft(t) ==
    IF t # << >> /\ IsSpace(Head(t)) THEN TrimLeft(Tail(t)) ELSE t

RECURSIVE TrimRight(_)
TrimRight(t) ==
    IF t # << >> /\ IsSpace(t[Len(t)]) THEN TrimRight(SubSeq(t, 1, Len(t) - 1)) ELSE t

Trim(t) == TrimLeft(TrimRight(t))

\* val == null || val.trim().length === 0
IsBlank(v) == Trim(v) = << >>

RECURSIVE Concat(_)
Concat(ss) == IF ss = << >> THEN << >> ELSE Head(ss) \o Concat(Tail(ss))

(***************************************************************************)
(* Dictionaries: JavaScript objects with string keys                       *)
(***************************************************************************)

Digits == <<"0", "1", "2", "3", "4", "5", "6", "7", "8", "9">>

DigitVal(c) == (CHOOSE n \in 1..10 : Digits[n] = c) - 1

IsDigit(c) == \E n \in 1..10 : Digits[n] = c

\* a key that is a canonical array index ("0", "7", "12"): such properties
\* come first, in ascending numeric order, when an object is iterated
IsArrayIndex(k) ==
    /\ Len(k) >= 1
    /\ \A n \in 1..Len(k) : IsDigit(k[n])
    /\ (Len(k) > 1 => k[1] # "0")

RECURSIVE ToNum(_)
ToNum(k) ==
    IF k = << >> THEN 0
    ELSE 10 * ToNum(SubSeq(k, 1, Len(k) - 1)) + DigitVal(k[Len(k)])

KeySet(d) == {d[n][1] : n \in 1..Len(d)}

\* key in obj
Has(d, k) == \E n \in 1..Len(d) : d[n][1] = k

IndexOf(d, k) == CHOOSE n \in 1..Len(d) : d[n][1] = k

\* obj[key] of a key that is present
Get(d, k) == d[IndexOf(d, k)][2]

\* obj[key] = value: an own property keeps its place; a new array-index key
\* goes among the index keys in numeric order; any other new key goes last
ObjSet(d, k, v) ==
    IF Has(d, k) THEN [d EXCEPT ![IndexOf(d, k)] = <<k, v>>]
    ELSE IF IsArrayIndex(k)
         THEN LET before == {n \in 1..Len(d) :
                               IsArrayIndex(d[n][1]) /\ ToNum(d[n][1]) < ToNum(k)}
                  p == Cardinality(before)
              IN  SubSeq(d, 1, p) \o <<<<k, v>>>> \o SubSeq(d, p + 1, Len(d))
         ELSE Append(d, <<k, v>>)

\* the object built from entries in textual order (JSON.parse, object spread)
RECURSIVE FromEntries(_, _)
FromEntries(es, acc) ==
    IF es = << >> THEN acc
    ELSE FromEntries(Tail(es), ObjSet(acc, Head(es)[1], Head(es)[2]))

(***************************************************************************)
(* translate.ts: the patch step on src/i18n.ts                             *)
(***************************************************************************)

KwTranslation == <<"t", "r", "a", "n", "s", "l", "a", "t", "i", "o", "n">>

KwConst == <<"c", "o", "n", "s", "t">>

KwResources == <<"r", "e", "s", "o", "u", "r", "c", "e", "s">>

\* label\s*:\s*\{ matched at position i: the position after "{", or 0
LabelOpenEnd(t, i, label) ==
    IF ~LitAt(t, i, label) THEN 0
    ELSE LET a == SkipSpace(t, i + Len(label))
         IN  IF ~(a <= Len(t) /\ t[a] = ":") THEN 0
             ELSE LET b == SkipSpace(t, a + 1)
                  IN  IF b <= Len(t) /\ t[b] = "{" THEN b + 1 ELSE 0

\* \}\s*\} matched at position k
CloseCloseAt(t, k) ==
    /\ k <= Len(t)
    /\ t[k] = "}"
    /\ LET c == SkipSpace(t, k + 1) IN c <= Len(t) /\ t[c] = "}"

\* positions k >= q where the lazy group of blockPattern can end
GroupEnds(t, q) == {k \in q..Len(t) : CloseCloseAt(t, k)}

\* positions j >= p where "translation\s*:\s*\{" matches and the rest can match
TranslationStarts(t, p) ==
    {j \in p..Len(t) :
        /\ LabelOpenEnd(t, j, KwTranslation) > 0
        /\ GroupEnds(t, LabelOpenEnd(t, j, KwTranslation)) # {}}

\* blockPattern.exec(fileContent): leftmost match, lazy quantifiers shortest
\* first.  found = FALSE is a null match; inner is match[1].
BlockPatternExec(t, langCode) ==
    LET starts == {i \in 1..Len(t) :
                     /\ LabelOpenEnd(t, i, langCode) > 0
                     /\ TranslationStarts(t, LabelOpenEnd(t, i, langCode)) # {}}
    IN  IF starts = {} THEN [found |-> FALSE, inner |-> << >>]
        ELSE LET i == Min(starts)
                 j == Min(TranslationStarts(t, LabelOpenEnd(t, i, langCode)))
                 q == LabelOpenEnd(t, j, KwTranslation)
                 k == Min(GroupEnds(t, q))
             IN  [found |-> TRUE, inner |-> Slice(t, q, k - 1)]

ParseFail == [ok |-> FALSE, str |-> << >>, next |-> 0]

\* a double-quoted string literal whose opening quote precedes position i
RECURSIVE ReadStr(_, _, _)
ReadStr(t, i, acc) ==
    IF i > Len(t) THEN ParseFail
    ELSE IF t[i] = "\"" THEN [ok |-> TRUE, str |-> acc, next |-> i + 1]
    ELSE IF t[i] = "\n" THEN ParseFail
    ELSE IF t[i] = "\\"
         THEN IF i + 1 <= Len(t) /\ t[i + 1] \in {"\"", "\\"}
              THEN ReadStr(t, i + 2, Append(acc, t[i + 1]))
              ELSE ParseFail
    ELSE ReadStr(t, i + 1, Append(acc, t[i]))

DictFail == [ok |-> FALSE, dict |-> << >>]

\* the members of an object literal: "key": "value" pairs separated by
\* commas, a trailing comma allowed, anything else a syntax error
RECURSIVE ParseMembers(_, _, _)
ParseMembers(t, i, acc) ==
    LET a == SkipSpace(t, i)
    IN  IF a > Len(t) THEN [ok |-> TRUE, dict |-> acc]
        ELSE IF t[a] # "\"" THEN DictFail
        ELSE LET key == ReadStr(t, a + 1, << >>)
                 b == SkipSpace(t, key.next)
             IN  IF ~key.ok \/ b > Len(t) THEN DictFail
                 ELSE IF t[b] # ":" THEN DictFail
                 ELSE LET c == SkipSpace(t, b + 1)
                      IN  IF c > Len(t) THEN DictFail
                          ELSE IF t[c] # "\"" THEN DictFail
                          ELSE LET val == ReadStr(t, c + 1, << >>)
                                   e == SkipSpace(t, val.next)
                                   acc2 == ObjSet(acc, key.str, val.str)
                               IN  IF ~val.ok THEN DictFail
                                   ELSE IF e > Len(t) THEN [ok |-> TRUE, dict |-> acc2]
                                   ELSE IF t[e] = "," THEN ParseMembers(t, e + 1, acc2)
                                   ELSE DictFail

\* parseCommentJson(`{${innerContent}}`)
parseCommentJson(innerContent) == ParseMembers(innerContent, 1, << >>)

\* key.replace(/\\/g, "\\\\").replace(/"/g, '\\"')
RECURSIVE Escape(_)
Escape(s) ==
    IF s = << >> THEN << >>
    ELSE (IF Head(s) \in {"\\", "\""} THEN <<"\\", Head(s)>> ELSE <<Head(s)>>)
         \o Escape(Tail(s))

\* `    "${safeKey}": "${safeValue}",\n`
EntryLine(e) ==
    <<" ", " ", " ", " ", "\"">> \o Escape(e[1]) \o <<"\"", ":", " ", "\"">>
        \o Escape(e[2]) \o <<"\"", ",", "\n">>

\* try { existingDict = parseCommentJson(toParse) } catch { existingDict = {} }
ParsedOrEmpty(parsed) == IF parsed.ok THEN parsed.dict ELSE << >>

\* if (match && match[1]): the inner object parsed, {} otherwise
DictOfMatch(m) ==
    IF m.found /\ m.inner # << >>
    THEN ParsedOrEmpty(parseCommentJson(Trim(m.inner)))
    ELSE << >>

\* the existing block's dictionary, {} when there is none or it does not parse
ExistingDict(fileContent, langCode) ==
    DictOfMatch(BlockPatternExec(fileContent, langCode))

\* property names every plain object inherits from Object.prototype
ObjectPrototypeKeys ==
    { <<"c", "o", "n", "s", "t", "r", "u", "c", "t", "o", "r">>,
      <<"t", "o", "S", "t", "r", "i", "n", "g">>,
      <<"v", "a", "l", "u", "e", "O", "f">>,
      <<"h", "a", "s", "O", "w", "n", "P", "r", "o", "p", "e", "r", "t", "y">> }

\* merged[key] is an inherited function: it is truthy and has no trim(), so
\* the test throws a TypeError
TestThrows(merged, key) == ~Has(merged, key) /\ key \in ObjectPrototypeKeys

\* !merged[key] || merged[key].trim().length === 0
Overwritable(merged, key) ==
    \/ ~Has(merged, key)
    \/ Get(merged, key) = << >>
    \/ IsBlank(Get(merged, key))

\* merge new translations into the existing ones (only overwrite keys that
\* are empty or missing)
RECURSIVE MergeInto(_, _)
MergeInto(merged, newEntries) ==
    IF newEntries = << >> THEN [threw |-> FALSE, dict |-> merged]
    ELSE LET e == Head(newEntries)
         IN  IF TestThrows(merged, e[1]) THEN [threw |-> TRUE, dict |-> merged]
             ELSE MergeInto(IF Overwritable(merged, e[1])
                            THEN ObjSet(merged, e[1], e[2])
                            ELSE merged,
                            Tail(newEntries))

MergedDict(fileContent, langCode, newDict) ==
    MergeInto(ExistingDict(fileContent, langCode), newDict)

\* the TS snippet of one language
SerializeBlock(langCode, merged) ==
    langCode
        \o <<":", " ", "{", "\n", " ", " ">> \o KwTranslation \o <<":", " ", "{", "\n">>
        \o Concat([n \in 1..Len(merged) |-> EntryLine(merged[n])])
        \o <<" ", " ", "}", "\n", "}", ",">>

\* threw: the merge loop raised a TypeError; block: the snippet otherwise
BlockOf(langCode, merged) ==
    [threw |-> merged.threw, block |-> SerializeBlock(langCode, merged.dict)]

buildMergedLanguageBlock(fileContent, langCode, newDict) ==
    BlockOf(langCode, MergedDict(fileContent, langCode, newDict))

\* patternExisting: langCode\s*:\s*\{[\s\S]*?\},  -- the ends "}," reachable
\* from an opening at position p
ExistingEnds(t, p) == {k \in p..(Len(t) - 1) : t[k] = "}" /\ t[k + 1] = ","}

\* the leftmost match of patternExisting in t: found, first and last position
PatternExistingExec(t, langCode) ==
    LET starts == {i \in 1..Len(t) :
                     /\ LabelOpenEnd(t, i, langCode) > 0
                     /\ ExistingEnds(t, LabelOpenEnd(t, i, langCode)) # {}}
    IN  IF starts = {} THEN [found |-> FALSE, from |-> 0, to |-> 0]
        ELSE LET i == Min(starts)
                 k == Min(ExistingEnds(t, LabelOpenEnd(t, i, langCode)))
             IN  [found |-> TRUE, from |-> i, to |-> k + 1]

\* positions of r where a replacement pattern of String.prototype.replace
\* starts: $$, $&, $` or $' (the pattern has no capture group)
DollarAt(r, n) == r[n] = "$" /\ n < Len(r) /\ r[n + 1] \in {"$", "&", "`", "'"}

\* the replacement string with its patterns expanded, left to right
RECURSIVE ExpandReplacement(_, _, _, _)
ExpandReplacement(r, matched, before, after) ==
    LET marks == {n \in 1..Len(r) : DollarAt(r, n)}
    IN  IF marks = {} THEN r
        ELSE LET n == Min(marks)
             IN  Slice(r, 1, n - 1)
                 \o (CASE r[n + 1] = "$" -> <<"$">>
                       [] r[n + 1] = "&" -> matched
                       [] r[n + 1] = "`" -> before
                       [] r[n + 1] = "'" -> after)
                 \o ExpandReplacement(Slice(r, n + 2, Len(r)), matched, before, after)

\* original.replace(patternExisting, newBlock + "\n")
ReplaceExisting(original, m, newBlock) ==
    LET before == Slice(original, 1, m.from - 1)
        matched == Slice(original, m.from, m.to)
        after == Slice(original, m.to + 1, Len(original))
    IN  before \o ExpandReplacement(newBlock \o <<"\n">>, matched, before, after) \o after

\* resourcesOpenPattern /const\s+resources\s*=\s*\{\s*/ matched at position i:
\* the position after the match (startIndex), or 0
ResourcesOpenEnd(t, i) ==
    IF ~LitAt(t, i, KwConst) THEN 0
    ELSE LET a == SkipSpace(t, i + Len(KwConst))
         IN  IF a = i + Len(KwConst) \/ ~LitAt(t, a, KwResources) THEN 0
             ELSE LET b == SkipSpace(t, a + Len(KwResources))
                  IN  IF ~(b <= Len(t) /\ t[b] = "=") THEN 0
                      ELSE LET c == SkipSpace(t, b + 1)
                           IN  IF c <= Len(t) /\ t[c] = "{"
                               THEN SkipSpace(t, c + 1) ELSE 0

\* matchOpen.index + matchOpen[0].length of the leftmost match, or 0
ResourcesStartIndex(t) ==
    LET starts == {i \in 1..Len(t) : ResourcesOpenEnd(t, i) > 0}
    IN  IF starts = {} THEN 0 ELSE ResourcesOpenEnd(t, Min(starts))

\* braceCount after the loop has read t[from..j]
CountAfter(t, from, j, braceCount) ==
    braceCount + Cardinality({n \in from..j : t[n] = "{"})
               - Cardinality({n \in from..j : t[n] = "}"})

\* the brace-counting loop from position i: the first closing brace that
\* brings braceCount to 0, or 0 when the text ends first (insertPos < 0)
ScanClose(t, i, braceCount) ==
    LET hits == {j \in i..Len(t) : t[j] = "}" /\ CountAfter(t, i, j, braceCount) = 0}
    IN  IF hits = {} THEN 0 ELSE Min(hits)

\* `${before}  ${newBlock}\n${after}`
InsertBlock(original, insertPos, newBlock) ==
    Slice(original, 1, insertPos - 1) \o <<" ", " ">> \o newBlock \o <<"\n">>
        \o Slice(original, insertPos, Len(original))

\* lines 300-309: exit when the loop found no closing brace, else insert
InsertOutcome(original, newBlock, insertPos) ==
    IF insertPos = 0 THEN [path |-> "exit", text |-> original]
    ELSE [path |-> "inserted", text |-> InsertBlock(original, insertPos, newBlock)]

\* lines 267-310, given the block built, the match of patternExisting and
\* the start index of the brace loop
WriteOutcome(original, built, m, startIndex) ==
    IF built.threw THEN [path |-> "threw", text |-> original]
    ELSE IF m.found
    THEN [path |-> "replaced", text |-> ReplaceExisting(original, m, built.block)]
    ELSE IF startIndex = 0 THEN [path |-> "exit", text |-> original]
    ELSE InsertOutcome(original, built.block, ScanClose(original, startIndex, 1))

\* updateSingleLanguageInI18n_Merge: the outcome ("replaced", "inserted",
\* "exit" for process.exit(1), "threw" for an exception out of the block
\* builder) and the content of i18n.ts afterwards
updateSingleLanguageInI18n_Merge(original, langCode, newDict) ==
    WriteOutcome(original,
                 buildMergedLanguageBlock(original, langCode, newDict),
                 PatternExistingExec(original, langCode),
                 ResourcesStartIndex(original))

(***************************************************************************)
(* config.ts                                                               *)
(***************************************************************************)

\* config.languages
Languages == << <<"d", "e">>, <<"e", "s">>, <<"f", "r">> >>

LangSet == {Languages[n] : n \in 1..Len(Languages)}

\* config.aws.concurrency
DefaultConcurrency == 5

(***************************************************************************)
(* Bounds and input sets                                                   *)
(***************************************************************************)

\* keys a locale file holds at most
MaxKeys == 3

\* calls of the patch step in one behaviour
MaxPatches == 2

\* runs of translate.ts in one behaviour
MaxRuns == 3

KHi == <<"H", "i">>
KBye == <<"B", "y", "e">>
K7 == <<"7">>
KGo == <<"G", "o">>
KUp == <<"U", "p">>
KCtor == <<"c", "o", "n", "s", "t", "r", "u", "c", "t", "o", "r">>

\* a key with an interpolation placeholder: "Yes: {n}"
KYes == <<"Y", "e", "s", ":", " ", "{", "n", "}">>

VYo == <<"Y", "o">>

\* the keys of a locale file, in the order the file lists them
FilePool == <<KHi, KBye, K7, KGo, KUp>>

\* a locale file with the first n keys of FilePool, the first f of them
\* translated and the others pending ("" or white space)
FileOf(n, f) ==
    [i \in 1..n |->
        <<FilePool[i], IF i <= f THEN VYo
                       ELSE IF i % 2 = 0 THEN <<" ">> ELSE << >> >>]

LocaleFiles ==
    {FileOf(q[1], q[2]) : q \in {r \in (0..MaxKeys) \X (0..MaxKeys) : r[2] <= r[1]}}

\* temp/keys.json is written sorted (extract.ts), by UTF-16 code unit
ExtractPool == <<K7, KBye, KHi, KCtor>>

RECURSIVE Pick(_, _, _)
Pick(pool, S, i) ==
    IF i > Len(pool) THEN << >>
    ELSE (IF i \in S THEN <<pool[i]>> ELSE << >>) \o Pick(pool, S, i + 1)

KeyLists == {Pick(ExtractPool, S, 1) : S \in SUBSET (1..Len(ExtractPool))}

\* the concurrency argument of translateSingleLocale
ConcurrencyChoices == {1, 2, DefaultConcurrency}

\* contents of src/i18n.ts: an empty resources object; a hand-written block
\* without trailing comma; a block formatted with trailing commas; a file
\* without the resources declaration
ArtifactEmpty ==
    <<"c", "o", "n", "s", "t", " ", "r", "e", "s", "o", "u", "r", "c", "e", "s",
      " ", "=", " ", "{", "\n", "}", ";", "\n">>

ArtifactHand ==
    <<"c", "o", "n", "s", "t", " ", "r", "e", "s", "o", "u", "r", "c", "e", "s",
      " ", "=", " ", "{", "\n", " ", " ", "f", "r", ":", " ", "{", " ",
      "t", "r", "a", "n", "s", "l", "a", "t", "i", "o", "n", ":", " ", "{", " ",
      "\"", "H", "i", "\"", ":", " ", "\"", "Y", "o", "\"", " ", "}", " ", "}",
      "\n", "}", ";", "\n">>

ArtifactPretty ==
    <<"c", "o", "n", "s", "t", " ", "r", "e", "s", "o", "u", "r", "c", "e", "s",
      " ", "=", " ", "{", "\n", " ", " ", "f", "r", ":", " ", "{", "\n",
      " ", " ", " ", " ", "t", "r", "a", "n", "s", "l", "a", "t", "i", "o", "n",
      ":", " ", "{", "\n", " ", " ", " ", " ", " ", " ",
      "\"", "H", "i", "\"", ":", " ", "\"", "Y", "o", "\"", ",", "\n",
      " ", " ", " ", " ", "}", ",", "\n", " ", " ", "}", ",", "\n", "}", ";", "\n">>

ArtifactNoResources ==
    <<"c", "o", "n", "s", "t", " ", "x", " ", "=", " ", "{", "\n", "}", ";", "\n">>

\* a file cut off after the opening brace of resources
ArtifactOpen ==
    <<"c", "o", "n", "s", "t", " ", "r", "e", "s", "o", "u", "r", "c", "e", "s",
      " ", "=", " ", "{", "\n">>

\* a block labelled "code", whose label ends in the language code "de"
ArtifactTail ==
    <<"c", "o", "n", "s", "t", " ", "r", "e", "s", "o", "u", "r", "c", "e", "s",
      " ", "=", " ", "{", "\n", " ", " ", "c", "o", "d", "e", ":", " ", "{", " ",
      "t", "r", "a", "n", "s", "l", "a", "t", "i", "o", "n", ":", " ", "{", " ",
      "\"", "H", "i", "\"", ":", " ", "\"", "Y", "o", "\"", " ", "}", " ", "}",
      ",", "\n", "}", ";", "\n">>

\* the resources given inline to i18n.init: no "const resources = {", and the
\* property name "resources" ends in the language code "es"
ArtifactInline ==
    <<"i", "1", "8", "n", ".", "i", "n", "i", "t", "(", "{", "\n", " ", " ",
      "r", "e", "s", "o", "u", "r", "c", "e", "s", ":", " ", "{", "\n", " ", " ",
      " ", " ", "e", "n", ":", " ", "{", " ", "t", "r", "a", "n", "s", "l", "a",
      "t", "i", "o", "n", ":", " ", "{", "}", " ", "}", ",", "\n", " ", " ", "}",
      ",", "\n", "}", ")", ";", "\n">>

Artifacts ==
    {ArtifactEmpty, ArtifactHand, ArtifactPretty, ArtifactNoResources,
     ArtifactOpen, ArtifactTail, ArtifactInline}

\* records handed to the patch step
PatchDicts ==
    { << <<KHi, VYo>> >>,
      << <<KHi, VYo>>, <<KBye, <<"T", "a">> >> >>,
      << <<KHi, << >> >> >>,
      << <<KBye, <<"a", "}", ",", "b">> >> >>,
      << <<KGo, <<"$", "$", "5">> >> >>,
      << <<KYes, <<"D", "a">> >> >> }

(***************************************************************************)
(* State                                                                   *)
(***************************************************************************)

VARIABLES
    i18nTs,          \* content of src/i18n.ts
    locales,         \* content of locales/<lang>.json, per language
    keysJson,        \* content of temp/keys.json
    pc,              \* translate.ts: position of translateSingleLocale
    langIdx,         \* translate.ts: index of the locale file in work
    concurrency,     \* translate.ts: the concurrency argument
    localeData,      \* translate.ts: the dictionary in memory
    loaded,          \* translate.ts: the dictionary as loaded
    keysToTranslate, \* translate.ts: the keys found blank, in order
    queue,           \* PQueue: jobs waiting, in order
    running,         \* PQueue: jobs whose provider call is in flight
    settled,         \* provider calls finished: <<key, "ok" | "fail">>
    saved,           \* translate.ts: saveLocaleJson was called
    lastPatch,       \* the last call of the patch step
    prevPatch,       \* the call of the patch step before it
    patched,         \* languages the patch step has written a block for
    nPatches,        \* calls of the patch step so far
    mpc,             \* merge.ts: position of main
    mIdx,            \* merge.ts: index of the locale file in work
    lastMerge,       \* merge.ts: the last locale file merged
    env,             \* what exists: the locales directory, src/i18n.ts, AWS_REGION
    mainPc,          \* translate.ts: position of main
    result,          \* translate.ts: allTranslations, <<langCode, dictionary>>
    pIdx,            \* translate.ts: index of main's loop over allTranslations
    console,         \* the lines logged per language: <<line, langCode>>
    run,             \* the number of the run of translate.ts in progress
    called           \* provider calls settled: <<run, langCode, key, outcome>>

vars ==
    <<i18nTs, locales, keysJson, pc, langIdx, concurrency, localeData, loaded,
      keysToTranslate, queue, running, settled, saved, lastPatch, prevPatch,
      patched, nPatches, mpc, mIdx, lastMerge, env, mainPc, result, pIdx,
      console, run, called>>

fillVars ==
    <<pc, langIdx, concurrency, localeData, loaded, keysToTranslate, queue,
      running, settled, saved>>

patchVars == <<lastPatch, prevPatch, patched, nPatches>>

mergeVars == <<mpc, mIdx, lastMerge>>

mainVars == <<env, mainPc, result, pIdx, console, run, called>>

\* every path and setting of config.ts is there
EnvComplete == [localesDir |-> TRUE, i18nTs |-> TRUE, awsRegion |-> TRUE]

NoPatch == [langCode |-> << >>, newDict |-> << >>, path |-> "none", before |-> << >>]

NoMerge ==
    [langCode |-> << >>, before |-> << >>, after |-> << >>, addedCount |-> 0,
     saved |-> FALSE]

FillIdle ==
    /\ pc = "idle"
    /\ langIdx = 1
    /\ concurrency = DefaultConcurrency
    /\ localeData = << >>
    /\ loaded = << >>
    /\ keysToTranslate = << >>
    /\ queue = << >>
    /\ running = {}
    /\ settled = << >>
    /\ saved = FALSE

PatchIdle ==
    /\ lastPatch = NoPatch
    /\ prevPatch = NoPatch
    /\ patched = {}
    /\ nPatches = 0

MergeIdle ==
    /\ mpc = "idle"
    /\ mIdx = 1
    /\ lastMerge = NoMerge

MainIdle ==
    /\ env = EnvComplete
    /\ mainPc = "idle"
    /\ result = << >>
    /\ pIdx = 1
    /\ console = << >>
    /\ run = 1
    /\ called = {}

(***************************************************************************)
(* translate.ts: translateSingleLocale                                     *)
(***************************************************************************)

\* JSON.parse of the file: the object its members build, {} for no file
loadLocaleJson(file) == FromEntries(file, << >>)

\* variant: entries whose value is blank are left out of the file
saveLocaleJsonFilled(obj) ==
    LET Filled(e) == ~(Trim(e[2]) = << >>)
    IN  SelectSeq(obj, Filled)

\* JSON.stringify(obj, null, 2): the own properties in iteration order
saveLocaleJson(obj) == [n \in 1..Len(obj) |-> <<obj[n][1], obj[n][2]>>]

\* variant: every key is collected, blank or not
IsPendingAlways(val) == TRUE

\* val == null || val.trim().length === 0
IsPending(val) == IsBlank(val)

\* the keys whose value is empty or white space, in iteration order
RECURSIVE CollectPending(_)
CollectPending(data) ==
    IF data = << >> THEN << >>
    ELSE (IF IsPending(Head(data)[2]) THEN <<Head(data)[1]>> ELSE << >>)
         \o CollectPending(Tail(data))

\* the provider's answer to a call that succeeds: some text that is not blank
TranslateText(langCode, text) == langCode \o <<"-">> \o text

\* variant: one job more than the limit
CanStartOneMore(nRunning, limit) == nRunning <= limit

\* PQueue starts a waiting job while fewer than `limit` jobs are running
CanStart(nRunning, limit) == nRunning < limit

\* PQueue: start waiting jobs, oldest first, as far as the limit allows
RECURSIVE StartJobs(_, _, _)
StartJobs(q, r, limit) ==
    IF q # << >> /\ CanStart(Cardinality(r), limit)
    THEN StartJobs(Tail(q), r \cup {Head(q)}, limit)
    ELSE [queue |-> q, running |-> r]

\* the for loop of queue.add calls
RECURSIVE AddAll(_, _, _, _)
AddAll(keys, q, r, limit) ==
    IF keys = << >> THEN [queue |-> q, running |-> r]
    ELSE LET st == StartJobs(Append(q, Head(keys)), r, limit)
         IN  AddAll(Tail(keys), st.queue, st.running, limit)

\* variant: every closure sees the loop variable's last value
JobKeyLast(engString, keys) == keys[Len(keys)]

\* the key a job assigns: the loop variable its closure captured
JobKey(engString, keys) == engString

\* variant: the assignment is lost (made on a copy of the dictionary)
JobWriteLost(data, key, ok, translated) == data

\* variant: the assignment also runs when the call failed
JobWriteAlways(data, key, ok, translated) == ObjSet(data, key, translated)

\* the job body: assign the translation, or log the error in the catch block
JobWrite(data, key, ok, translated) ==
    IF ok THEN ObjSet(data, key, translated) ELSE data

\* variant: queue.onEmpty(), which does not wait for the running jobs
OnEmpty(q, r) == q = << >>

\* queue.onIdle(): the queue is empty and no job is running
OnIdle(q, r) == q = << >> /\ r = {}

\* langCodeFromFilename(filename) of the file in work
currentLang == Languages[langIdx]

\* variant: the early return is missing
NothingToDoNever(keys) == FALSE

\* keysToTranslate.length === 0
NothingToDo(keys) == keys = << >>

\* lines 78-100: load the file and collect the blank keys
Load ==
    /\ pc = "load"
    /\ LET data == loadLocaleJson(locales[currentLang])
           keys == CollectPending(data)
       IN  /\ localeData' = data
           /\ loaded' = data
           /\ keysToTranslate' = keys
           /\ pc' = IF NothingToDo(keys) THEN "returned" ELSE "dispatch"
           /\ console' = console \o <<<<"translating", currentLang>>>>
                            \o (IF NothingToDo(keys)
                                THEN <<<<"nothing", currentLang>>>> ELSE << >>)
    /\ queue' = << >>
    /\ running' = {}
    /\ settled' = << >>
    /\ saved' = FALSE
    /\ UNCHANGED <<i18nTs, locales, keysJson, langIdx, concurrency>>
    /\ UNCHANGED <<env, mainPc, result, pIdx, run, called>>
    /\ UNCHANGED patchVars
    /\ UNCHANGED mergeVars

\* lines 102-127: one job per blank key is added to a new queue
Dispatch ==
    /\ pc = "dispatch"
    /\ LET st == AddAll(keysToTranslate, << >>, {}, concurrency)
       IN  /\ queue' = st.queue
           /\ running' = st.running
    /\ pc' = "drain"
    /\ UNCHANGED <<i18nTs, locales, keysJson, langIdx, concurrency, localeData,
                   loaded, keysToTranslate, settled, saved>>
    /\ UNCHANGED patchVars
    /\ UNCHANGED mergeVars
    /\ UNCHANGED mainVars

\* a provider call in flight ends; the job finishes and PQueue starts the next
JobSettles(engString, ok) ==
    /\ pc = "drain"
    /\ engString \in running
    /\ ok => env.awsRegion
    /\ localeData' = JobWrite(localeData, JobKey(engString, keysToTranslate), ok,
                              TranslateText(currentLang, engString))
    /\ settled' = Append(settled, <<engString, IF ok THEN "ok" ELSE "fail">>)
    /\ LET st == StartJobs(queue, running \ {engString}, concurrency)
       IN  /\ queue' = st.queue
           /\ running' = st.running
    /\ called' = called \cup {<<run, currentLang, engString,
                                 IF ok THEN "ok" ELSE "fail">>}
    /\ UNCHANGED <<i18nTs, locales, keysJson, pc, langIdx, concurrency, loaded,
                   keysToTranslate, saved>>
    /\ UNCHANGED <<env, mainPc, result, pIdx, console, run>>
    /\ UNCHANGED patchVars
    /\ UNCHANGED mergeVars

JobSucceeds == \E engString \in running : JobSettles(engString, TRUE)

JobFails == \E engString \in running : JobSettles(engString, FALSE)

\* lines 130-136: onIdle resolves, the file is saved, the dictionary returned
SaveAndReturn ==
    /\ pc = "drain"
    /\ OnIdle(queue, running)
    /\ locales' = [locales EXCEPT ![currentLang] = saveLocaleJson(localeData)]
    /\ saved' = TRUE
    /\ pc' = "returned"
    /\ console' = Append(console, <<"wrote", currentLang>>)
    /\ UNCHANGED <<i18nTs, keysJson, langIdx, concurrency, localeData, loaded,
                   keysToTranslate, queue, running, settled>>
    /\ UNCHANGED <<env, mainPc, result, pIdx, run, called>>
    /\ UNCHANGED patchVars
    /\ UNCHANGED mergeVars

InitFill ==
    /\ i18nTs = ArtifactEmpty
    /\ langIdx \in 1..Len(Languages)
    /\ locales \in [LangSet -> LocaleFiles]
    /\ \A l \in LangSet : l # Languages[langIdx] => locales[l] = << >>
    /\ keysJson = << >>
    /\ pc = "load"
    /\ concurrency \in ConcurrencyChoices
    /\ localeData = << >>
    /\ loaded = << >>
    /\ keysToTranslate = << >>
    /\ queue = << >>
    /\ running = {}
    /\ settled = << >>
    /\ saved = FALSE
    /\ PatchIdle
    /\ MergeIdle
    /\ MainIdle

NextFill ==
    \/ Load
    \/ Dispatch
    \/ JobSucceeds
    \/ JobFails
    \/ SaveAndReturn

SpecFill == InitFill /\ [][NextFill]_vars

SettledKeys(outcome) ==
    {settled[n][1] : n \in {m \in 1..Len(settled) : settled[m][2] = outcome}}

ScheduledKeys == {keysToTranslate[n] : n \in 1..Len(keysToTranslate)}

StillPending == {k \in ScheduledKeys : IsBlank(Get(localeData, k))}

\* C4: fill returns with exactly the failed keys still pending and the other
\* N - M scheduled keys resolved, and before it returns it can always take a
\* step: no provider failure stops the batch or escapes.
C4_FillDrainsFully ==
    /\ pc = "returned" =>
          /\ Len(settled) = Len(keysToTranslate)
          /\ StillPending = SettledKeys("fail")
          /\ Cardinality(ScheduledKeys \ StillPending)
               = Len(keysToTranslate) - Cardinality(SettledKeys("fail"))
    /\ pc # "returned" => ENABLED NextFill

C4_Witness ==
    /\ pc = "returned"
    /\ Len(keysToTranslate) >= 3
    /\ Cardinality(SettledKeys("fail")) = 1
    /\ settled[1][2] = "fail"

\* C5: a key whose loaded value is not blank keeps exactly that value in the
\* dictionary in memory and in the locale file, in every state of fill.
C5_FillNeverDowngrades ==
    \A n \in 1..Len(loaded) :
        ~IsBlank(loaded[n][2]) =>
            /\ Has(localeData, loaded[n][1])
            /\ Get(localeData, loaded[n][1]) = loaded[n][2]
            /\ Has(loadLocaleJson(locales[currentLang]), loaded[n][1])
            /\ Get(loadLocaleJson(locales[currentLang]), loaded[n][1]) = loaded[n][2]

C5_Witness ==
    /\ pc = "returned"
    /\ saved
    /\ SettledKeys("ok") # {}
    /\ \E n \in 1..Len(loaded) : ~IsBlank(loaded[n][2])

\* C8: the locale file is saved and fill returns only when every job of the
\* batch has settled: none is waiting and none is in flight.
C8_FullDrainBarrier ==
    (pc = "returned" \/ saved) =>
        /\ queue = << >>
        /\ running = {}
        /\ SettledKeys("ok") \cup SettledKeys("fail") = ScheduledKeys

C8_Witness ==
    /\ pc = "returned"
    /\ saved
    /\ Len(settled) >= 3
    /\ concurrency < Len(settled)

\* C9: the provider calls in flight never exceed the concurrency limit.
C9_ConcurrencyBound == Cardinality(running) <= concurrency

C9_Witness ==
    /\ pc = "drain"
    /\ Cardinality(running) = concurrency
    /\ queue # << >>

\* the dictionary fill returns when the jobs complete in submission order
RECURSIVE InSubmissionOrder(_, _)
InSubmissionOrder(data, keys) ==
    IF keys = << >> THEN data
    ELSE InSubmissionOrder(
             IF Head(keys) \in SettledKeys("ok")
             THEN ObjSet(data, Head(keys), TranslateText(currentLang, Head(keys)))
             ELSE data,
             Tail(keys))

\* C10: for given provider outcomes per key, the dictionary fill returns is the
\* one obtained when the jobs complete in submission order, whatever order
\* they did complete in.
C10_OrderIndependence ==
    pc = "returned" => localeData = InSubmissionOrder(loaded, keysToTranslate)

C10_Witness ==
    /\ pc = "returned"
    /\ Len(settled) >= 3
    /\ Cardinality(SettledKeys("ok")) >= 2
    /\ settled[1][1] = keysToTranslate[Len(keysToTranslate)]

\* the console holds a line of this kind
Logged(line) == \E n \in 1..Len(console) : console[n][1] = line

\* no key of the loaded record is blank
NonePending == \A n \in 1..Len(loaded) : ~IsBlank(loaded[n][2])

\* C16: when no key of the loaded record is blank, fill makes no provider
\* call, returns the record as loaded and does not write the locale file.
C16_EmptyPendingNoOp ==
    (pc # "load" /\ NonePending) =>
        /\ pc = "returned"
        /\ queue = << >>
        /\ running = {}
        /\ settled = << >>
        /\ localeData = loaded
        /\ ~saved
        /\ ~Logged("wrote")

C16_Witness ==
    /\ pc = "returned"
    /\ NonePending
    /\ Len(loaded) >= 2
    /\ Logged("nothing")

\* the provider calls made for key so far: settled or in flight
CallsFor(key) ==
    Cardinality({n \in 1..Len(settled) : settled[n][1] = key})
        + (IF key \in running THEN 1 ELSE 0)

\* the PendingSet of the next run: the blank keys of the locale file
NextPendingSet ==
    LET next == CollectPending(loadLocaleJson(locales[currentLang]))
    IN  {next[n] : n \in 1..Len(next)}

\* C19: no key gets more than one provider call in a batch; when fill has
\* returned, every key that was pending at dispatch has had exactly one, and
\* a key whose call failed is blank in the returned record and in the saved
\* file, hence in the PendingSet of the next run.
C19_OneCallPerKey ==
    /\ \A k \in ScheduledKeys : CallsFor(k) <= 1
    /\ \A n \in 1..Len(settled) : settled[n][1] \in ScheduledKeys
    /\ (pc = "returned" /\ keysToTranslate # << >>) =>
          /\ saved
          /\ \A k \in ScheduledKeys : CallsFor(k) = 1
          /\ \A k \in SettledKeys("fail") :
                /\ IsBlank(Get(localeData, k))
                /\ k \in NextPendingSet

C19_Witness ==
    /\ pc = "returned"
    /\ saved
    /\ Len(keysToTranslate) >= 3
    /\ Cardinality(SettledKeys("fail")) >= 2
    /\ SettledKeys("ok") # {}

(***************************************************************************)
(* The patch step, called on any language with any record                  *)
(***************************************************************************)

Written(path) == path \in {"inserted", "replaced"}

\* the state after a call of the patch step with outcome r
PatchDone(langCode, newDict, r) ==
    /\ i18nTs' = r.text
    /\ lastPatch' = [langCode |-> langCode, newDict |-> newDict,
                     path |-> r.path, before |-> i18nTs]
    /\ patched' = IF Written(r.path) THEN patched \cup {langCode} ELSE patched

PatchCall(langCode, newDict) ==
    /\ nPatches < MaxPatches
    /\ PatchDone(langCode, newDict,
                 updateSingleLanguageInI18n_Merge(i18nTs, langCode, newDict))
    /\ prevPatch' = lastPatch
    /\ nPatches' = nPatches + 1
    /\ UNCHANGED <<locales, keysJson>>
    /\ UNCHANGED fillVars
    /\ UNCHANGED mergeVars
    /\ UNCHANGED mainVars

InitPatch ==
    /\ i18nTs \in Artifacts
    /\ locales = [l \in LangSet |-> << >>]
    /\ keysJson = << >>
    /\ FillIdle
    /\ PatchIdle
    /\ MergeIdle
    /\ MainIdle

NextPatch == \E langCode \in LangSet, newDict \in PatchDicts : PatchCall(langCode, newDict)

SpecPatch == InitPatch /\ [][NextPatch]_vars

\* a block of langCode starts at position i: its label, not the tail of a
\* longer identifier, then ":" and "{"
IsIdentChar(c) ==
    c \in {"a", "b", "c", "d", "e", "f", "g", "h", "i", "j", "k", "l", "m", "n",
           "o", "p", "q", "r", "s", "t", "u", "v", "w", "x", "y", "z", "_", "$",
           "A", "B", "C", "D", "E", "F", "G", "H", "I", "J", "K", "L", "M", "N",
           "O", "P", "Q", "R", "S", "T", "U", "V", "W", "X", "Y", "Z"}
        \/ IsDigit(c)

BlockStarts(t, langCode) ==
    {i \in 1..Len(t) :
        /\ LabelOpenEnd(t, i, langCode) > 0
        /\ (i > 1 => ~IsIdentChar(t[i - 1]))}

BlockCount(t, langCode) == Cardinality(BlockStarts(t, langCode))

\* the character at position j is preceded by an odd run of backslashes
Escaped(t, j) ==
    LET stops == {m \in 1..(j - 1) : t[m] # "\\"}
        last == IF stops = {} THEN 0 ELSE CHOOSE m \in stops : \A x \in stops : x <= m
    IN  (j - 1 - last) % 2 = 1

\* the positions of t that lie inside a double-quoted string literal
QuoteMarks(t) == {j \in 1..Len(t) : t[j] = "\"" /\ ~Escaped(t, j)}

\* the braces of t outside string literals: the depth of open braces is
\* never negative and is 0 at the end
Balanced(t) ==
    LET quotes == QuoteMarks(t)
        outside == {i \in 1..Len(t) : Cardinality({j \in quotes : j < i}) % 2 = 0}
        opens == {i \in outside : t[i] = "{"}
        closes == {i \in outside : t[i] = "}"}
    IN  /\ Cardinality(opens) = Cardinality(closes)
        /\ \A c \in closes :
              Cardinality({i \in opens : i < c}) >= Cardinality({i \in closes : i <= c})

SameCallTwice ==
    /\ Written(prevPatch.path)
    /\ lastPatch.path # "none"
    /\ lastPatch.langCode = prevPatch.langCode
    /\ lastPatch.newDict = prevPatch.newDict

\* C1: when the patch step is applied twice in a row with the same language
\* and record, the artifact after the second application is character for
\* character the artifact after the first one.
C1_PatchIdempotence == SameCallTwice => i18nTs = lastPatch.before

\* C2: an artifact that starts with at most one block per language holds at
\* most one block per language after any sequence of patch calls, and
\* exactly one block for every language that was patched.
C2_BlockUniqueness ==
    \A l \in LangSet :
        /\ BlockCount(i18nTs, l) <= 1
        /\ (l \in patched => BlockCount(i18nTs, l) = 1)

\* C3: a patch call that finds the artifact's braces balanced and writes the
\* artifact leaves the braces balanced, on the insert and on the replace path.
C3_PatchBalance ==
    (Written(lastPatch.path) /\ Balanced(lastPatch.before)) => Balanced(i18nTs)

\* the positions of t outside double-quoted string literals
Outside(t) ==
    LET quotes == QuoteMarks(t)
    IN  {i \in 1..Len(t) : Cardinality({j \in quotes : j < i}) % 2 = 0}

\* the closing brace that matches, by nesting depth, the opening brace before
\* position p (braces inside string literals do not count), or 0
MatchClose(t, p, out) ==
    LET hits == {c \in p..Len(t) :
                   /\ c \in out
                   /\ t[c] = "}"
                   /\ Cardinality({n \in p..c : n \in out /\ t[n] = "}"})
                        = Cardinality({n \in p..c : n \in out /\ t[n] = "{"}) + 1}
    IN  IF hits = {} THEN 0 ELSE Min(hits)

\* the last position of the block that starts at i: its matching closing brace
BlockEnd(t, i, langCode) == MatchClose(t, LabelOpenEnd(t, i, langCode), Outside(t))

\* the first "translation: {" between positions p and c: the position after "{"
TranslationOpen(t, p, c, out) ==
    LET js == {j \in p..c : j \in out /\ LabelOpenEnd(t, j, KwTranslation) > 0}
    IN  IF js = {} THEN 0 ELSE LabelOpenEnd(t, Min(js), KwTranslation)

\* the text between the braces of the object that opens before position q
ObjectInner(t, q, out) ==
    IF q = 0 \/ MatchClose(t, q, out) = 0 THEN << >>
    ELSE Slice(t, q, MatchClose(t, q, out) - 1)

\* the dictionary the block at position i holds under "translation", as the
\* TypeScript compiler reads it: keys and values are string literals
BlockDict(t, i, langCode) ==
    ParsedOrEmpty(parseCommentJson(Trim(
        ObjectInner(t,
                    TranslationOpen(t, LabelOpenEnd(t, i, langCode),
                                    BlockEnd(t, i, langCode), Outside(t)),
                    Outside(t)))))

\* some block of langCode in t holds key with value val
BlockHolds(t, langCode, key, val) ==
    \E i \in BlockStarts(t, langCode) :
        /\ Has(BlockDict(t, i, langCode), key)
        /\ Get(BlockDict(t, i, langCode), key) = val

\* the entries held by the blocks of langCode in t
BlockEntries(t, langCode) ==
    UNION {{BlockDict(t, i, langCode)[n] :
               n \in 1..Len(BlockDict(t, i, langCode))} :
           i \in BlockStarts(t, langCode)}

\* C11: every key the language's block holds with a value that is not blank
\* before a patch call that writes the artifact is held with exactly that
\* value by the language's block afterwards, whatever the new record says.
C11_ExistingSurvives ==
    Written(lastPatch.path) =>
        \A e \in BlockEntries(lastPatch.before, lastPatch.langCode) :
            ~IsBlank(e[2]) => BlockHolds(i18nTs, lastPatch.langCode, e[1], e[2])

\* C13: a patch call for a language that has no block, on an artifact in
\* which "const resources = {" or its matching closing brace is not found,
\* ends in an error and leaves the artifact exactly as it was.
C13_AllOrNothing ==
    ( /\ lastPatch.path # "none"
      /\ BlockCount(lastPatch.before, lastPatch.langCode) = 0
      /\ \/ ResourcesStartIndex(lastPatch.before) = 0
         \/ ScanClose(lastPatch.before, ResourcesStartIndex(lastPatch.before), 1) = 0 )
        => /\ ~Written(lastPatch.path)
           /\ i18nTs = lastPatch.before

\* the region from..to of t is the block of langCode that starts at i: from
\* its label to its matching closing brace, the trailing comma included or not
IsBlockRegion(t, i, langCode, from, to) ==
    /\ from = i
    /\ BlockEnd(t, i, langCode) > 0
    /\ to \in {BlockEnd(t, i, langCode), BlockEnd(t, i, langCode) + 1}
    /\ (to = BlockEnd(t, i, langCode) + 1 => (to <= Len(t) /\ t[to] = ","))

\* C18: a patch call on an artifact that holds a block of the language takes
\* the replace path, and the region it replaces runs from the block's label
\* to the closing brace that matches the block's opening brace.
C18_ReplaceTargetsBlock ==
    (lastPatch.path # "none" /\ BlockCount(lastPatch.before, lastPatch.langCode) = 1) =>
        /\ lastPatch.path = "replaced"
        /\ \A i \in BlockStarts(lastPatch.before, lastPatch.langCode) :
              IsBlockRegion(lastPatch.before, i, lastPatch.langCode,
                            PatternExistingExec(lastPatch.before, lastPatch.langCode).from,
                            PatternExistingExec(lastPatch.before, lastPatch.langCode).to)

\* key is absent from the blocks of langCode in t, or blank there
AbsentOrBlank(t, langCode, key) ==
    \A e \in BlockEntries(t, langCode) : e[1] = key => IsBlank(e[2])

\* C20: after a patch call that writes the artifact, the language's block
\* holds every key of the new record that was absent from the block, or
\* blank there, with the value the record gives it.
C20_PatchFillsFromRecord ==
    Written(lastPatch.path) =>
        \A n \in 1..Len(lastPatch.newDict) :
            AbsentOrBlank(lastPatch.before, lastPatch.langCode, lastPatch.newDict[n][1])
                => BlockHolds(i18nTs, lastPatch.langCode,
                              lastPatch.newDict[n][1], lastPatch.newDict[n][2])

\* the texts of the blocks of langCode in t, each from its label to its
\* matching closing brace
BlockTexts(t, langCode) ==
    {Slice(t, i, BlockEnd(t, i, langCode)) :
        i \in {j \in BlockStarts(t, langCode) : BlockEnd(t, j, langCode) > 0}}

\* the text of old before the resources collection opens and from its closing
\* brace on is the head and the tail of new
SameOutsideResources(old, new, startIndex, closePos) ==
    (startIndex > 0 /\ closePos > 0) =>
        /\ Len(new) >= (startIndex - 1) + (Len(old) - closePos + 1)
        /\ Slice(new, 1, startIndex - 1) = Slice(old, 1, startIndex - 1)
        /\ Slice(new, Len(new) - (Len(old) - closePos), Len(new))
             = Slice(old, closePos, Len(old))

\* C21: a patch call that writes the artifact leaves the block of every other
\* language, and the text before and after the resources collection,
\* character for character as they were.
C21_PatchLeavesRestAlone ==
    Written(lastPatch.path) =>
        /\ \A l \in LangSet \ {lastPatch.langCode} :
              BlockTexts(i18nTs, l) = BlockTexts(lastPatch.before, l)
        /\ SameOutsideResources(
               lastPatch.before, i18nTs,
               ResourcesStartIndex(lastPatch.before),
               ScanClose(lastPatch.before, ResourcesStartIndex(lastPatch.before), 1))

(***************************************************************************)
(* merge.ts                                                                *)
(***************************************************************************)

\* comment-json parse of the file: the object its members build, {} for no file
loadLocaleFile(file) == FromEntries(file, << >>)

\* comment-json stringify(obj, null, 2): the own properties in iteration order
saveLocaleFile(obj) == [n \in 1..Len(obj) |-> <<obj[n][1], obj[n][2]>>]

\* key in localeObj: an own property, or one inherited from Object.prototype
KeyIn(localeObj, key) == Has(localeObj, key) \/ key \in ObjectPrototypeKeys

\* variant: a key whose value is blank counts as missing too
IsMissingOrBlank(localeObj, key) ==
    ~Has(localeObj, key) \/ IsBlank(Get(localeObj, key))

\* !(key in localeObj)
IsMissing(localeObj, key) == ~KeyIn(localeObj, key)

\* the loop over allKeys: missing keys are added with an empty string
RECURSIVE AddMissing(_, _, _)
AddMissing(localeObj, allKeys, addedCount) ==
    IF allKeys = << >> THEN [obj |-> localeObj, addedCount |-> addedCount]
    ELSE IF IsMissing(localeObj, Head(allKeys))
         THEN AddMissing(ObjSet(localeObj, Head(allKeys), << >>), Tail(allKeys),
                         addedCount + 1)
         ELSE AddMissing(localeObj, Tail(allKeys), addedCount)

\* lines 76-98: one iteration of the loop over the locale files
MergeLocale ==
    /\ mpc = "loop"
    /\ mIdx <= Len(Languages)
    /\ LET localeObj == loadLocaleFile(locales[Languages[mIdx]])
           r == AddMissing(localeObj, keysJson, 0)
       IN  /\ locales' = IF r.addedCount > 0
                         THEN [locales EXCEPT ![Languages[mIdx]] = saveLocaleFile(r.obj)]
                         ELSE locales
           /\ lastMerge' = [langCode |-> Languages[mIdx], before |-> localeObj,
                            after |-> r.obj, addedCount |-> r.addedCount,
                            saved |-> r.addedCount > 0]
    /\ mIdx' = mIdx + 1
    /\ UNCHANGED <<i18nTs, keysJson, mpc>>
    /\ UNCHANGED fillVars
    /\ UNCHANGED patchVars
    /\ UNCHANGED mainVars

\* the loop ends and main returns
MergeEnd ==
    /\ mpc = "loop"
    /\ mIdx > Len(Languages)
    /\ mpc' = "done"
    /\ UNCHANGED <<i18nTs, locales, keysJson, mIdx, lastMerge>>
    /\ UNCHANGED fillVars
    /\ UNCHANGED patchVars
    /\ UNCHANGED mainVars

InitMerge ==
    /\ i18nTs = ArtifactEmpty
    /\ locales \in [LangSet -> LocaleFiles]
    /\ keysJson \in KeyLists
    /\ FillIdle
    /\ PatchIdle
    /\ mpc = "loop"
    /\ mIdx = 1
    /\ lastMerge = NoMerge
    /\ MainIdle

NextMerge ==
    \/ MergeLocale
    \/ MergeEnd

SpecMerge == InitMerge /\ [][NextMerge]_vars

Merged == lastMerge.langCode # << >>

ExtractedKeys == {keysJson[n] : n \in 1..Len(keysJson)}

\* C6: every entry the locale's record held before the merge step is in the
\* record afterwards, and in the locale file, with exactly the value it had.
C6_MergeAdditiveOnly ==
    Merged =>
        \A n \in 1..Len(lastMerge.before) :
            LET key == lastMerge.before[n][1]
                val == lastMerge.before[n][2]
                file == loadLocaleFile(locales[lastMerge.langCode])
            IN  /\ Has(lastMerge.after, key)
                /\ Get(lastMerge.after, key) = val
                /\ Has(file, key)
                /\ Get(file, key) = val

C6_Witness ==
    /\ Merged
    /\ lastMerge.addedCount >= 1
    /\ \E n \in 1..Len(lastMerge.before) : lastMerge.before[n][2] = <<" ">>
    /\ \E n \in 1..Len(lastMerge.before) : ~IsBlank(lastMerge.before[n][2])

\* C7: after the merge step the record holds every extracted key, each key
\* that was absent before holds the empty string, and the added count is the
\* number of extracted keys that were absent.
C7_MergeCompleteness ==
    Merged =>
        LET absent == {k \in ExtractedKeys : ~Has(lastMerge.before, k)}
        IN  /\ \A k \in ExtractedKeys : Has(lastMerge.after, k)
            /\ \A k \in absent : Has(lastMerge.after, k) /\ Get(lastMerge.after, k) = << >>
            /\ lastMerge.addedCount = Cardinality(absent)

(***************************************************************************)
(* translate.ts: main and translateAllLocales                              *)
(***************************************************************************)

\* the environments of a run: complete, or with one path or setting missing
Envs ==
    { EnvComplete,
      [EnvComplete EXCEPT !.localesDir = FALSE],
      [EnvComplete EXCEPT !.i18nTs = FALSE],
      [EnvComplete EXCEPT !.awsRegion = FALSE] }

\* locale files of the languages after the first: none, one pending key, one
\* translated key and one pending key
SmallFiles == {FileOf(0, 0), FileOf(1, 0), FileOf(2, 1)}

\* contents of src/i18n.ts at the start of a run
MainArtifacts == {ArtifactEmpty, ArtifactPretty, ArtifactNoResources, ArtifactOpen}

\* lines 148-164: the locales directory is checked, the file list is built
Start ==
    /\ mainPc = "start"
    /\ IF env.localesDir
       THEN /\ mainPc' = "translate"
            /\ pc' = "load"
            /\ console' = console
       ELSE /\ mainPc' = "exit"
            /\ pc' = pc
            /\ console' = Append(console, <<"error", << >> >>)
    /\ langIdx' = 1
    /\ result' = << >>
    /\ UNCHANGED <<i18nTs, locales, keysJson, concurrency, localeData, loaded,
                   keysToTranslate, queue, running, settled, saved, env, pIdx,
                   run, called>>
    /\ UNCHANGED patchVars
    /\ UNCHANGED mergeVars

\* variant: the call of translateSingleLocale is not awaited
LoopResumesEarly(p) == p \in {"drain", "returned"}

\* await translateSingleLocale(...): the loop goes on when the call returned
LoopResumes(p) == p = "returned"

\* lines 165-175: result[langCode] = updatedDict, then the next file, or the
\* return to main after the last one
NextLocale ==
    /\ mainPc = "translate"
    /\ LoopResumes(pc)
    /\ result' = ObjSet(result, currentLang, localeData)
    /\ IF langIdx < Len(Languages)
       THEN /\ langIdx' = langIdx + 1
            /\ pc' = "load"
            /\ mainPc' = mainPc
       ELSE /\ langIdx' = langIdx
            /\ pc' = "idle"
            /\ mainPc' = "patch"
    /\ pIdx' = 1
    /\ UNCHANGED <<i18nTs, locales, keysJson, concurrency, localeData, loaded,
                   keysToTranslate, queue, running, settled, saved, env, console,
                   run, called>>
    /\ UNCHANGED patchVars
    /\ UNCHANGED mergeVars

\* the line the patch step logs: lines 271, 279, 301, 310, and line 329 for
\* an exception that reaches main().catch
PatchLine(path) ==
    CASE path = "replaced" -> "merged"
      [] path = "inserted" -> "inserted"
      [] path = "exit" -> "error"
      [] path = "threw" -> "fatal"

\* the state after main's call of the patch step with outcome r: the loop
\* goes on after a write; process.exit(1) ends the run otherwise
PatchStepDone(langCode, newDict, r) ==
    /\ PatchDone(langCode, newDict, r)
    /\ console' = Append(console, <<PatchLine(r.path), langCode>>)
    /\ mainPc' = IF Written(r.path) THEN "patch" ELSE "exit"
    /\ pIdx' = IF Written(r.path) THEN pIdx + 1 ELSE pIdx

\* lines 323-325: one iteration of main's loop.  Without src/i18n.ts the
\* readFileSync of line 261 throws and main().catch exits.
PatchStep ==
    /\ mainPc = "patch"
    /\ pIdx <= Len(result)
    /\ IF env.i18nTs
       THEN PatchStepDone(result[pIdx][1], result[pIdx][2],
                          updateSingleLanguageInI18n_Merge(
                              i18nTs, result[pIdx][1], result[pIdx][2]))
       ELSE /\ console' = Append(console, <<"fatal", result[pIdx][1]>>)
            /\ mainPc' = "exit"
            /\ UNCHANGED <<i18nTs, lastPatch, patched, pIdx>>
    /\ prevPatch' = lastPatch
    /\ nPatches' = nPatches + 1
    /\ UNCHANGED <<locales, keysJson, env, result, run, called>>
    /\ UNCHANGED fillVars
    /\ UNCHANGED mergeVars

\* line 326: the loop is over and main returns
Finish ==
    /\ mainPc = "patch"
    /\ pIdx > Len(result)
    /\ mainPc' = "done"
    /\ UNCHANGED <<i18nTs, locales, keysJson, env, result, pIdx, console, run,
                   called>>
    /\ UNCHANGED fillVars
    /\ UNCHANGED patchVars
    /\ UNCHANGED mergeVars

Init ==
    /\ i18nTs \in MainArtifacts
    /\ locales \in [LangSet -> LocaleFiles]
    /\ \A n \in 2..Len(Languages) : locales[Languages[n]] \in SmallFiles
    /\ keysJson = << >>
    /\ FillIdle
    /\ PatchIdle
    /\ MergeIdle
    /\ env \in Envs
    /\ mainPc = "start"
    /\ result = << >>
    /\ pIdx = 1
    /\ console = << >>
    /\ run = 1
    /\ called = {}

Next ==
    \/ Start
    \/ Load
    \/ Dispatch
    \/ JobSucceeds
    \/ JobFails
    \/ SaveAndReturn
    \/ NextLocale
    \/ PatchStep
    \/ Finish

Spec == Init /\ [][Next]_vars

\* the lines of the console that the patch step of langCode logged
PatchLines(langCode) ==
    {n \in 1..Len(console) :
        /\ console[n][2] = langCode
        /\ console[n][1] \in {"merged", "inserted", "error", "fatal"}}

\* the run is over: main returned or the process exited
RunOver == mainPc \in {"done", "exit"}

\* C12: when the patch step of a language has ended in a fatal error
\* (resources label or its closing brace not found), the run ends only after
\* the patch step of every language has been executed.
C12_PatchErrorIsolation ==
    (RunOver /\ \E l \in LangSet : \E n \in PatchLines(l) : console[n][1] = "error")
        => \A l \in LangSet : PatchLines(l) # {}

\* C14: in a run whose configuration lacks a required path or setting (the
\* locales directory, src/i18n.ts, the provider region) no provider call is
\* made, no locale file is written and the artifact is not written.
C14_ConfigAbortsFirst ==
    env # EnvComplete =>
        /\ queue = << >>
        /\ running = {}
        /\ settled = << >>
        /\ ~Logged("wrote")
        /\ patched = {}

\* the keys of a locale file, in the order the file lists them
KeysOf(file) == [n \in 1..Len(file) |-> file[n][1]]

\* the keys of keysJson that file holds and old does not, in merge order
AddedKeys(old, file) ==
    LET IsAdded(k) == Has(file, k) /\ ~Has(old, k)
    IN  SelectSeq(keysJson, IsAdded)

\* file lists the keys of old first, in their order, then the merged keys
KeepsOrder(old, file) ==
    /\ Len(file) >= Len(old)
    /\ SubSeq(KeysOf(file), 1, Len(old)) = KeysOf(old)
    /\ SubSeq(KeysOf(file), Len(old) + 1, Len(file)) = AddedKeys(old, file)

\* C15: a locale file that the merge step writes lists the keys it listed
\* before in their previous order, followed by the newly merged keys in the
\* order they were merged, and saving its record again writes the same file.
C15_SaveKeepsOrder ==
    [][\A l \in LangSet :
          locales'[l] # locales[l] =>
              /\ KeepsOrder(locales[l], locales'[l])
              /\ saveLocaleFile(loadLocaleFile(locales'[l])) = locales'[l]]_vars

\* the place of a language in the processing order
LangIndex(langCode) == CHOOSE n \in 1..Len(Languages) : Languages[n] = langCode

\* the lines that end the fill of a language: nothing to do, or file written
FillEnd(langCode) == {<<"nothing", langCode>>, <<"wrote", langCode>>}

\* the lines of a patch step that wrote the artifact
PatchWrote(langCode) == {<<"merged", langCode>>, <<"inserted", langCode>>}

IsPatchLine(e) == e[1] \in {"merged", "inserted", "error", "fatal"} /\ e[2] \in LangSet

\* line n of the console stands where the two passes of main put it: the
\* fill of a language right after the fill of the language before it, the
\* patch of the first language right after the fill of the last one, the
\* patch of any other language right after the patch of the one before it
InTwoPassOrder(n) ==
    LET e == console[n]
        k == LangIndex(e[2])
    IN  CASE e[2] \notin LangSet -> n = 1
          [] e[1] = "translating" ->
                IF k = 1 THEN n = 1
                ELSE n > 1 /\ console[n - 1] \in FillEnd(Languages[k - 1])
          [] e[1] \in {"nothing", "wrote"} ->
                n > 1 /\ console[n - 1] = <<"translating", e[2]>>
          [] OTHER ->
                /\ n > 1
                /\ IF k = 1 THEN console[n - 1] \in FillEnd(Languages[Len(Languages)])
                   ELSE console[n - 1] \in PatchWrote(Languages[k - 1])

\* the jobs waiting or in flight are those of the language whose fill began last
JobsOfOneLanguage ==
    (queue # << >> \/ running # {}) =>
        /\ pc = "drain"
        /\ console # << >>
        /\ console[Len(console)] = <<"translating", currentLang>>

\* C17 as stated: the load of a language starts only after the patch step of
\* the language before it, and all jobs belong to one language.
C17_OneLanguageAtATime ==
    /\ JobsOfOneLanguage
    /\ \A n \in 1..Len(console) :
          (console[n][1] = "translating" /\ LangIndex(console[n][2]) > 1) =>
              \E m \in 1..(n - 1) :
                  /\ IsPatchLine(console[m])
                  /\ console[m][2] = Languages[LangIndex(console[n][2]) - 1]

\* C17 amended: main works in two passes.  Load, fill and save run language
\* by language in the configured order; the patch steps run after the fill of
\* the last language, in the same order; all jobs belong to one language.
C17_TwoPassOrder ==
    /\ JobsOfOneLanguage
    /\ \A n \in 1..Len(console) : InTwoPassOrder(n)

C17_Witness ==
    /\ mainPc = "done"
    /\ Logged("wrote")
    /\ Logged("nothing")
    /\ \A l \in LangSet : <<"inserted", l>> \in {console[n] : n \in 1..Len(console)}

(***************************************************************************)
(* translate.ts run again and again on the locale file it wrote            *)
(***************************************************************************)

\* the next run of translate.ts reaches translateSingleLocale for the same
\* file: nothing but the locale file is carried over from the run before
NextRun ==
    /\ pc = "returned"
    /\ run < MaxRuns
    /\ run' = run + 1
    /\ pc' = "load"
    /\ UNCHANGED <<i18nTs, locales, keysJson, langIdx, concurrency, localeData,
                   loaded, keysToTranslate, queue, running, settled, saved>>
    /\ UNCHANGED <<env, mainPc, result, pIdx, console, called>>
    /\ UNCHANGED patchVars
    /\ UNCHANGED mergeVars

InitRuns == InitFill

NextRuns ==
    \/ NextFill
    \/ NextRun

SpecRuns == InitRuns /\ [][NextRuns]_vars

\* the provider calls of run r that have settled
CallsOf(r) == {c \in called : c[1] = r}

\* the keys submitted to the provider in the run in progress
Submitted ==
    {queue[n] : n \in 1..Len(queue)} \cup running
        \cup {c[3] : c \in CallsOf(run)}

\* C22: a key whose provider call succeeded in a run is not submitted to the
\* provider in any later run, and a run that follows a run in which every
\* provider call succeeded makes no provider call.
C22_RunsConverge ==
    /\ \A c \in called : (c[4] = "ok" /\ c[1] < run) => c[3] \notin Submitted
    /\ \A c \in called, d \in called :
          (c[4] = "ok" /\ c[1] < d[1]) => c[3] # d[3]
    /\ \A r \in 2..run :
          (\A c \in CallsOf(r - 1) : c[4] = "ok") =>
              /\ CallsOf(r) = {}
              /\ (r = run => (queue = << >> /\ running = {}))

C22_Witness ==
    /\ run = MaxRuns
    /\ pc = "returned"
    /\ \E c \in CallsOf(1) : c[4] = "ok"
    /\ \E c \in CallsOf(1) : c[4] = "fail"
    /\ \E c \in CallsOf(2) : c[4] = "ok"
    /\ CallsOf(MaxRuns) = {}

====
